---- MODULE Spec2Model ----
(***************************************************************************)
(* NodeModal (src/features/modals/NodeModal/index.tsx): the path-addressed *)
(* JSON accessor getFullNodeValue, the mutator updateJsonAtPath, the path  *)
(* formatter jsonPathToString, the display preview normalizeNodeData and   *)
(* the Viewing/Editing editor built on them.                               *)
(*                                                                         *)
(* A text (a JavaScript string) is a sequence of one-character strings.    *)
(* The value undefined, which JSON.stringify returns for undefined and     *)
(* which React state can hold in place of a string, is the one-element     *)
(* sequence Undefined, whose element is no character.                      *)
(*                                                                         *)
(* A JavaScript value is a record tagged by t:                             *)
(*   null, undef, hole (an array slot never assigned), bool (b), num (n),  *)
(*   str (s: its characters), arr (a: its elements),                       *)
(*   obj (o: its own properties, <<key, value>> pairs in property order).  *)
(* Property names that every object inherits (length, constructor,         *)
(* __proto__, ...) and negative or fractional numbers are outside the      *)
(* alphabet of the keys and values the model draws.                        *)
(***************************************************************************)
EXTENDS Integers, Sequences, FiniteSets, TLC

VARIABLES
  json,       \* useJson store: the document text getJson() returns
  nodeData,   \* useGraph selectedNode: [sel |-> BOOLEAN, path |-> Path]
  isEditing,  \* React state isEditing
  editValue,  \* React state editValue (the EditBuffer)
  toasts,     \* notifications emitted by the most recent handler
  written,    \* texts passed to setContents by the most recent handler
  lastOp,     \* the most recent handler
  changed,    \* another writer wrote the store since Editing was entered
  prevOp,     \* the handler before the most recent one
  apart,      \* every such write was at a location apart from the selected path
  saves,      \* successful saves in a row with nothing but Edit between them
  rD, rP, rV, \* resolver harness inputs: document text, path, new value
  rSet,       \* resolver harness: outcome of updateJsonAtPath(rD, rP, rV)
  rGet,       \* resolver harness: getFullNodeValue(rD, rP)
  rGet2,      \* resolver harness: getFullNodeValue(rSet.text, rP)
  rPc,        \* resolver harness position
  fP, fQ,     \* formatter harness inputs: two paths
  fOut,       \* formatter harness: <<jsonPathToString(fP), jsonPathToString(fQ)>>
  fPc,        \* formatter harness position
  pRows,      \* preview harness input: the node's rows, or none
  pOut,       \* preview harness: normalizeNodeData(pRows)
  pPc         \* preview harness position

vars == <<json, nodeData, isEditing, editValue, toasts, written, lastOp, changed,
          prevOp, apart, saves,
          rD, rP, rV, rSet, rGet, rGet2, rPc, fP, fQ, fOut, fPc,
          pRows, pOut, pPc>>

editorVars == <<json, nodeData, isEditing, editValue, toasts, written, lastOp,
                changed, prevOp, apart, saves>>
resolverVars == <<rD, rP, rV, rSet, rGet, rGet2, rPc>>
formatVars == <<fP, fQ, fOut, fPc>>
previewVars == <<pRows, pOut, pPc>>

----------------------------------------------------------------------------
(* JavaScript values *)

Undefined == <<"undefined">>

Null == [t |-> "null"]
Undef == [t |-> "undef"]
Hole == [t |-> "hole"]
Bool(b) == [t |-> "bool", b |-> b]
Num(n) == [t |-> "num", n |-> n]
Str(s) == [t |-> "str", s |-> s]
Arr(a) == [t |-> "arr", a |-> a]
Obj(o) == [t |-> "obj", o |-> o]

Digits == <<"0", "1", "2", "3", "4", "5", "6", "7", "8", "9">>

IsDigit(c) == \E d \in 1..10 : Digits[d] = c

DigitValue(c) == (CHOOSE d \in 1..10 : Digits[d] = c) - 1

\* Number.prototype.toString for a non-negative integer
RECURSIVE NumberToString(_)
NumberToString(n) ==
  IF n < 10 THEN <<Digits[n + 1]>>
  ELSE NumberToString(n \div 10) \o <<Digits[(n % 10) + 1]>>

RECURSIVE DigitsToNumber(_, _)
DigitsToNumber(s, acc) ==
  IF s = <<>> THEN acc
  ELSE DigitsToNumber(Tail(s), 10 * acc + DigitValue(Head(s)))

\* ToPropertyKey: a number used as a property name becomes its decimal text
PropertyKey(seg) == IF seg.t = "num" THEN NumberToString(seg.n) ELSE seg.s

\* a canonical array index: decimal digits with no leading zero
IsArrayIndex(k) ==
  /\ Len(k) > 0
  /\ \A i \in 1..Len(k) : IsDigit(k[i])
  /\ (Len(k) > 1 => k[1] # "0")

IsContainer(v) == v.t \in {"obj", "arr"}

HasKey(o, k) == \E i \in 1..Len(o) : o[i][1] = k

KeyPos(o, k) == CHOOSE i \in 1..Len(o) : o[i][1] = k

\* where a new property goes in the property order: array-index names
\* first, ascending; every other name after them, in creation order
InsertPos(o, k) ==
  IF IsArrayIndex(k)
  THEN LET later == {i \in 1..Len(o) :
                       \/ ~IsArrayIndex(o[i][1])
                       \/ DigitsToNumber(o[i][1], 0) > DigitsToNumber(k, 0)}
       IN IF later = {} THEN Len(o) + 1
          ELSE CHOOSE i \in later : \A j \in later : i <= j
  ELSE Len(o) + 1

\* obj[k] = v on an ordinary object: overwrite in place, or create
DefineProperty(o, k, v) ==
  IF HasKey(o, k)
  THEN [o EXCEPT ![KeyPos(o, k)] = <<k, v>>]
  ELSE LET p == InsertPos(o, k)
       IN SubSeq(o, 1, p - 1) \o <<<<k, v>>>> \o SubSeq(o, p, Len(o))

----------------------------------------------------------------------------
(* JSON.stringify(value, null, 2) *)

Indent == 2

Spaces(n) == [i \in 1..n |-> " "]

RECURSIVE EscapeChars(_)
EscapeChars(s) ==
  IF s = <<>> THEN <<>>
  ELSE LET c == Head(s)
       IN (CASE c = "\"" -> <<"\\", "\"">>
             [] c = "\\" -> <<"\\", "\\">>
             [] c = "\n" -> <<"\\", "n">>
             [] OTHER -> <<c>>) \o EscapeChars(Tail(s))

QuoteJSONString(s) == <<"\"">> \o EscapeChars(s) \o <<"\"">>

RECURSIVE SerializeValue(_, _)
RECURSIVE SerializeElements(_, _, _)
RECURSIVE SerializeProperties(_, _, _)

\* undefined and holes inside an array are written as null
SerializeValue(v, ind) ==
  CASE v.t = "bool" ->
         IF v.b THEN <<"t", "r", "u", "e">> ELSE <<"f", "a", "l", "s", "e">>
    [] v.t = "num" -> NumberToString(v.n)
    [] v.t = "str" -> QuoteJSONString(v.s)
    [] v.t = "arr" ->
         IF v.a = <<>> THEN <<"[", "]">>
         ELSE <<"[", "\n">> \o SerializeElements(v.a, 1, ind + Indent)
              \o <<"\n">> \o Spaces(ind) \o <<"]">>
    [] v.t = "obj" ->
         \* a property whose value is undefined is left out
         LET props == SelectSeq(v.o, LAMBDA p : p[2].t # "undef")
         IN IF props = <<>> THEN <<"{", "}">>
            ELSE <<"{", "\n">> \o SerializeProperties(props, 1, ind + Indent)
                 \o <<"\n">> \o Spaces(ind) \o <<"}">>
    [] OTHER -> <<"n", "u", "l", "l">>

SerializeElements(a, i, ind) ==
  Spaces(ind) \o SerializeValue(a[i], ind)
  \o (IF i < Len(a) THEN <<",", "\n">> \o SerializeElements(a, i + 1, ind)
      ELSE <<>>)

SerializeProperties(o, i, ind) ==
  Spaces(ind) \o QuoteJSONString(o[i][1]) \o <<":", " ">>
  \o SerializeValue(o[i][2], ind)
  \o (IF i < Len(o) THEN <<",", "\n">> \o SerializeProperties(o, i + 1, ind)
      ELSE <<>>)

\* JSON.stringify(undefined) is undefined, not a text
JSONstringify(v) ==
  IF v.t \in {"undef", "hole"} THEN Undefined ELSE SerializeValue(v, 0)

----------------------------------------------------------------------------
(* JSON.parse(text): [ok |-> FALSE] is a thrown SyntaxError *)

Fail == [ok |-> FALSE, v |-> Undef, i |-> 0]

IsWhitespace(c) == c \in {" ", "\n"}

RECURSIVE SkipWhitespace(_, _)
SkipWhitespace(s, i) ==
  IF i <= Len(s) /\ IsWhitespace(s[i]) THEN SkipWhitespace(s, i + 1) ELSE i

Matches(s, i, w) ==
  /\ i + Len(w) - 1 <= Len(s)
  /\ SubSeq(s, i, i + Len(w) - 1) = w

RECURSIVE EndOfDigits(_, _)
EndOfDigits(s, i) ==
  IF i <= Len(s) /\ IsDigit(s[i]) THEN EndOfDigits(s, i + 1) ELSE i

\* i is just past the opening quote
RECURSIVE ParseString(_, _, _)
ParseString(s, i, acc) ==
  IF i > Len(s) THEN Fail
  ELSE IF s[i] = "\"" THEN [ok |-> TRUE, v |-> Str(acc), i |-> i + 1]
  ELSE IF s[i] = "\\"
    THEN IF i + 1 > Len(s) THEN Fail
         ELSE IF s[i + 1] \in {"\"", "\\"}
           THEN ParseString(s, i + 2, Append(acc, s[i + 1]))
         ELSE IF s[i + 1] = "n" THEN ParseString(s, i + 2, Append(acc, "\n"))
         ELSE Fail
  ELSE IF s[i] = "\n" THEN Fail
  ELSE ParseString(s, i + 1, Append(acc, s[i]))

\* a leading zero ends the number: "01" is left with a trailing "1"
ParseNumber(s, i) ==
  IF s[i] = "0" THEN [ok |-> TRUE, v |-> Num(0), i |-> i + 1]
  ELSE LET j == EndOfDigits(s, i)
       IN [ok |-> TRUE, v |-> Num(DigitsToNumber(SubSeq(s, i, j - 1), 0)), i |-> j]

RECURSIVE ParseValue(_, _)
RECURSIVE ParseElements(_, _, _)
RECURSIVE ParseMembers(_, _, _)

\* i is at the first character of the value
ParseValue(s, i) ==
  IF i > Len(s) THEN Fail
  ELSE IF s[i] = "{"
    THEN LET j == SkipWhitespace(s, i + 1)
         IN IF j <= Len(s) /\ s[j] = "}"
            THEN [ok |-> TRUE, v |-> Obj(<<>>), i |-> j + 1]
            ELSE ParseMembers(s, j, <<>>)
  ELSE IF s[i] = "["
    THEN LET j == SkipWhitespace(s, i + 1)
         IN IF j <= Len(s) /\ s[j] = "]"
            THEN [ok |-> TRUE, v |-> Arr(<<>>), i |-> j + 1]
            ELSE ParseElements(s, j, <<>>)
  ELSE IF s[i] = "\"" THEN ParseString(s, i + 1, <<>>)
  ELSE IF IsDigit(s[i]) THEN ParseNumber(s, i)
  ELSE IF Matches(s, i, <<"t", "r", "u", "e">>)
    THEN [ok |-> TRUE, v |-> Bool(TRUE), i |-> i + 4]
  ELSE IF Matches(s, i, <<"f", "a", "l", "s", "e">>)
    THEN [ok |-> TRUE, v |-> Bool(FALSE), i |-> i + 5]
  ELSE IF Matches(s, i, <<"n", "u", "l", "l">>)
    THEN [ok |-> TRUE, v |-> Null, i |-> i + 4]
  ELSE Fail

ParseElements(s, i, acc) ==
  LET r == ParseValue(s, i)
      j == SkipWhitespace(s, r.i)
  IN IF ~r.ok \/ j > Len(s) THEN Fail
     ELSE IF s[j] = ","
       THEN ParseElements(s, SkipWhitespace(s, j + 1), Append(acc, r.v))
     ELSE IF s[j] = "]"
       THEN [ok |-> TRUE, v |-> Arr(Append(acc, r.v)), i |-> j + 1]
     ELSE Fail

\* a repeated key keeps its first place and takes the last value
ParseMembers(s, i, acc) ==
  IF i > Len(s) \/ s[i] # "\"" THEN Fail
  ELSE LET k == ParseString(s, i + 1, <<>>)
           c == SkipWhitespace(s, k.i)
       IN IF ~k.ok \/ c > Len(s) \/ s[c] # ":" THEN Fail
          ELSE LET r == ParseValue(s, SkipWhitespace(s, c + 1))
                   j == SkipWhitespace(s, r.i)
                   o == DefineProperty(acc, k.v.s, r.v)
               IN IF ~r.ok \/ j > Len(s) THEN Fail
                  ELSE IF s[j] = ","
                    THEN ParseMembers(s, SkipWhitespace(s, j + 1), o)
                  ELSE IF s[j] = "}"
                    THEN [ok |-> TRUE, v |-> Obj(o), i |-> j + 1]
                  ELSE Fail

JSONparse(text) ==
  LET r == ParseValue(text, SkipWhitespace(text, 1))
  IN IF r.ok /\ SkipWhitespace(text, r.i) = Len(text) + 1
     THEN [ok |-> TRUE, v |-> r.v]
     ELSE [ok |-> FALSE, v |-> Undef]

----------------------------------------------------------------------------
(* Property access as the module (strict-mode) code performs it.           *)
(* [thrown |-> TRUE] is a TypeError.                                       *)

Thrown == [thrown |-> TRUE, v |-> Undef]
Normal(v) == [thrown |-> FALSE, v |-> v]

\* current[seg], read
GetProperty(current, seg) ==
  LET k == PropertyKey(seg)
      n == DigitsToNumber(k, 0)
  IN CASE current.t \in {"undef", "null"} -> Thrown
       [] current.t = "obj" ->
            Normal(IF HasKey(current.o, k)
                   THEN current.o[KeyPos(current.o, k)][2] ELSE Undef)
       [] current.t = "arr" ->
            Normal(IF IsArrayIndex(k) /\ n < Len(current.a)
                        /\ current.a[n + 1].t # "hole"
                   THEN current.a[n + 1] ELSE Undef)
       [] current.t = "str" ->
            \* a string has its characters as index properties
            Normal(IF IsArrayIndex(k) /\ n < Len(current.s)
                   THEN Str(<<current.s[n + 1]>>) ELSE Undef)
       [] OTHER -> Normal(Undef)

\* SetProperty as sloppy-mode code would perform it: an assignment to a
\* property of a primitive is dropped without a TypeError
SetPropertySloppy(current, seg, v) ==
  LET k == PropertyKey(seg)
      n == DigitsToNumber(k, 0)
  IN CASE current.t \in {"undef", "null"} -> Thrown
       [] current.t = "obj" -> Normal(Obj(DefineProperty(current.o, k, v)))
       [] current.t = "arr" ->
            IF IsArrayIndex(k)
            THEN IF n < Len(current.a)
                 THEN Normal(Arr([current.a EXCEPT ![n + 1] = v]))
                 ELSE Normal(Arr(current.a
                                 \o [i \in 1..(n - Len(current.a)) |-> Hole]
                                 \o <<v>>))
            ELSE Normal(current)
       [] OTHER -> Normal(current)

\* current[seg] = v; the result is current after the assignment
SetProperty(current, seg, v) ==
  LET k == PropertyKey(seg)
      n == DigitsToNumber(k, 0)
  IN CASE current.t \in {"undef", "null"} -> Thrown
       [] current.t = "obj" -> Normal(Obj(DefineProperty(current.o, k, v)))
       [] current.t = "arr" ->
            IF IsArrayIndex(k)
            THEN IF n < Len(current.a)
                 THEN Normal(Arr([current.a EXCEPT ![n + 1] = v]))
                 \* past the end: the array grows, leaving holes
                 ELSE Normal(Arr(current.a
                                 \o [i \in 1..(n - Len(current.a)) |-> Hole]
                                 \o <<v>>))
            \* any other name becomes a property that is no element:
            \* JSON.stringify of an array writes its elements only
            ELSE Normal(current)
       \* a primitive (string, number, boolean) takes no property
       [] OTHER -> Thrown

\* the loop "current = current[path[i]]" over path[1..n]
RECURSIVE Navigate(_, _, _)
Navigate(current, path, n) ==
  IF n = 0 THEN Normal(current)
  ELSE LET r == Navigate(current, path, n - 1)
       IN IF r.thrown THEN Thrown ELSE GetProperty(r.v, path[n])

\* root after the container reached by path[i..Len(path)] has become
\* parent; the containers on the way are shared with root, not copied
RECURSIVE Aliased(_, _, _, _)
Aliased(root, path, i, parent) ==
  IF i > Len(path) THEN parent
  ELSE LET child == GetProperty(root, path[i]).v
           new == Aliased(child, path, i + 1, parent)
       IN SetProperty(root, path[i], new).v

Text(t) == [thrown |-> FALSE, text |-> t]
Failed == [thrown |-> TRUE, text |-> Undefined]

EmptyObjectText == <<"{", "}">>

getFullNodeValue(jsonString, path) ==
  LET parsed == JSONparse(jsonString)
      r == Navigate(parsed.v, path, Len(path))
  IN IF ~parsed.ok THEN EmptyObjectText
     ELSE IF Len(path) = 0 THEN JSONstringify(parsed.v)
     ELSE IF r.thrown THEN EmptyObjectText
     ELSE JSONstringify(r.v)

\* updateJsonAtPath keeping the document on a root-level update
updateJsonAtPathKeepsRoot(jsonString, path, newValue) ==
  LET parsed == JSONparse(jsonString)
      n == Len(path)
      parent == Navigate(parsed.v, path, n - 1)
      assigned == SetProperty(parent.v, path[n], newValue)
  IN IF ~parsed.ok THEN Failed
     ELSE IF n = 0 THEN Text(JSONstringify(parsed.v))
     ELSE IF parent.thrown \/ assigned.thrown THEN Failed
     ELSE Text(JSONstringify(
                 Aliased(parsed.v, SubSeq(path, 1, n - 1), 1, assigned.v)))

updateJsonAtPath(jsonString, path, newValue) ==
  LET parsed == JSONparse(jsonString)
      n == Len(path)
      parent == Navigate(parsed.v, path, n - 1)
      assigned == SetProperty(parent.v, path[n], newValue)
  IN IF ~parsed.ok THEN Failed
     ELSE IF n = 0 THEN Text(JSONstringify(newValue))
     ELSE IF parent.thrown \/ assigned.thrown THEN Failed
     ELSE Text(JSONstringify(
                 Aliased(parsed.v, SubSeq(path, 1, n - 1), 1, assigned.v)))

RECURSIVE Join(_, _)
Join(segments, sep) ==
  IF segments = <<>> THEN <<>>
  ELSE IF Len(segments) = 1 THEN segments[1]
  ELSE segments[1] \o sep \o Join(Tail(segments), sep)

\* jsonPathToString without the quotes around a string segment
jsonPathToStringUnquoted(path) ==
  IF Len(path) = 0 THEN <<"$">>
  ELSE LET segments ==
             [i \in 1..Len(path) |->
                IF path[i].t = "num" THEN NumberToString(path[i].n)
                ELSE path[i].s]
       IN <<"$", "[">> \o Join(segments, <<"]", "[">>) \o <<"]">>

\* jsonPathToString with one bracket pair around all the segments
jsonPathToStringOneBracket(path) ==
  IF Len(path) = 0 THEN <<"$">>
  ELSE LET segments ==
             [i \in 1..Len(path) |->
                IF path[i].t = "num" THEN NumberToString(path[i].n)
                ELSE <<"\"">> \o path[i].s \o <<"\"">>]
       IN <<"$", "[">> \o Join(segments, <<",">>) \o <<"]">>

jsonPathToString(path) ==
  IF Len(path) = 0 THEN <<"$">>
  ELSE LET segments ==
             [i \in 1..Len(path) |->
                IF path[i].t = "num" THEN NumberToString(path[i].n)
                ELSE <<"\"">> \o path[i].s \o <<"\"">>]
       IN <<"$", "[">> \o Join(segments, <<"]", "[">>) \o <<"]">>

\* a row of NodeData["text"]: [key, value, type]; key is NoKey (null) or a
\* text, possibly the empty one
NoKey == <<"null">>

\* !row.key
KeyIsFalsy(row) == row.key = NoKey \/ row.key = <<>>

NoRows == [given |-> FALSE, rows |-> <<>>]
Rows(rows) == [given |-> TRUE, rows |-> rows]

\* `${value}`
TemplateString(v) ==
  CASE v.t = "str" -> v.s
    [] v.t = "num" -> NumberToString(v.n)
    [] v.t = "bool" ->
         IF v.b THEN <<"t", "r", "u", "e">> ELSE <<"f", "a", "l", "s", "e">>
    [] v.t = "null" -> <<"n", "u", "l", "l">>
    [] OTHER -> Undefined

\* normalizeNodeData's loop without the test of row.type
RECURSIVE ForEachRowAnyType(_, _)
ForEachRowAnyType(rows, obj) ==
  IF rows = <<>> THEN obj
  ELSE LET row == Head(rows)
       IN ForEachRowAnyType(Tail(rows),
            IF ~KeyIsFalsy(row)
            THEN DefineProperty(obj, row.key, row.value) ELSE obj)

\* nodeRows.forEach(row => ...) on obj
RECURSIVE ForEachRow(_, _)
ForEachRow(rows, obj) ==
  IF rows = <<>> THEN obj
  ELSE LET row == Head(rows)
       IN ForEachRow(Tail(rows),
            IF row.type \notin {"array", "object"} /\ ~KeyIsFalsy(row)
            THEN DefineProperty(obj, row.key, row.value) ELSE obj)

normalizeNodeData(nodeRows) ==
  IF ~nodeRows.given \/ Len(nodeRows.rows) = 0 THEN EmptyObjectText
  ELSE IF Len(nodeRows.rows) = 1 /\ KeyIsFalsy(nodeRows.rows[1])
    THEN TemplateString(nodeRows.rows[1].value)
  ELSE JSONstringify(Obj(ForEachRow(nodeRows.rows, <<>>)))

----------------------------------------------------------------------------
(* resolve as the specification states it: descend one segment per step,   *)
(* through objects and arrays only, into a key the object has or an index  *)
(* the array has                                                           *)

NotFound == [found |-> FALSE, v |-> Undef]
Found(v) == [found |-> TRUE, v |-> v]

RECURSIVE Descend(_, _)
Descend(v, path) ==
  IF path = <<>> THEN Found(v)
  ELSE LET k == PropertyKey(Head(path))
           n == DigitsToNumber(k, 0)
       IN IF v.t = "obj" /\ HasKey(v.o, k)
          THEN Descend(v.o[KeyPos(v.o, k)][2], Tail(path))
          ELSE IF v.t = "arr" /\ IsArrayIndex(k) /\ n < Len(v.a)
          THEN Descend(v.a[n + 1], Tail(path))
          ELSE NotFound

ResolveIn(text, path) ==
  LET parsed == JSONparse(text)
  IN IF parsed.ok THEN Descend(parsed.v, path) ELSE NotFound

\* one path is a prefix of the other
Comparable(p, q) ==
  LET n == IF Len(p) < Len(q) THEN Len(p) ELSE Len(q)
  IN SubSeq(p, 1, n) = SubSeq(q, 1, n)

\* path applies a string segment to an object and an integer segment to
\* an array at every step
RECURSIVE WellTyped(_, _)
WellTyped(v, path) ==
  \/ path = <<>>
  \/ /\ \/ v.t = "obj" /\ Head(path).t = "str"
        \/ v.t = "arr" /\ Head(path).t = "num"
     /\ Descend(v, <<Head(path)>>).found
          => WellTyped(Descend(v, <<Head(path)>>).v, Tail(path))

\* every segment of path but the last resolves to an object or an array
ParentIsContainer(text, path) ==
  /\ Len(path) > 0
  /\ LET parent == ResolveIn(text, SubSeq(path, 1, Len(path) - 1))
     IN parent.found /\ IsContainer(parent.v)

----------------------------------------------------------------------------
(* Inputs *)

MaxIndex == 1
MaxPathLen == 2
MaxDocLen == 25
MaxSaves == 2

KeyA == <<"a">>
KeyB == <<"b">>

Segments == {Str(KeyA), Str(KeyB)} \cup {Num(i) : i \in 0..MaxIndex}

Paths == UNION {[1..n -> Segments] : n \in 0..MaxPathLen}

\* {"a":{"b":1}}  {"a":[1,2]}  {"a":"xy"}  [{"a":1}]  {"a":null,"b":true}
\* []  {"0":[1]}
Documents ==
  { Obj(<< <<KeyA, Obj(<< <<KeyB, Num(1)>> >>)>> >>),
    Obj(<< <<KeyA, Arr(<<Num(1), Num(2)>>)>> >>),
    Obj(<< <<KeyA, Str(<<"x", "y">>)>> >>),
    Arr(<< Obj(<< <<KeyA, Num(1)>> >>) >>),
    Obj(<< <<KeyA, Null>>, <<KeyB, Bool(TRUE)>> >>),
    Arr(<<>>),
    Obj(<< <<<<"0">>, Arr(<<Num(1)>>)>> >>) }

\* the store keeps the document pretty-printed
DocumentTexts == {JSONstringify(d) : d \in Documents}

\* a text that is no JSON:  {"a":
BrokenText == <<"{", "\"", "a", "\"", ":">>

\* 7  "x"  null  {"a":1}  []  true
NewValues ==
  { Num(7), Str(<<"x">>), Null, Obj(<< <<KeyA, Num(1)>> >>), Arr(<<>>),
    Bool(TRUE) }

\* the documents the store starts with and other writers put there:
\* {"a":[]}  {"a":"xy"}  {"a":[],"b":1}
StoreTexts ==
  { JSONstringify(Obj(<< <<KeyA, Arr(<<>>)>> >>)),
    JSONstringify(Obj(<< <<KeyA, Str(<<"x", "y">>)>> >>)),
    JSONstringify(Obj(<< <<KeyA, Arr(<<>>)>>, <<KeyB, Num(1)>> >>)) }

\* the paths the selection source supplies: the root, and every node or
\* slot of the containers of the store's documents (the root and a)
NodePaths ==
  {<<>>} \cup {<<seg>> : seg \in Segments}
         \cup {<<Str(KeyA), seg>> : seg \in Segments}

\* what the user types:  no   7   {"a":1}   {"a":
TypedTexts ==
  { <<"n", "o">>,
    <<"7">>,
    <<"{", "\"", "a", "\"", ":", "1", "}">>,
    BrokenText }

\* a key that holds the characters the formatter writes between segments
BracketKey == <<"a", "\"", "]", "[", "\"", "b">>

FormatSegments == Segments \cup {Str(<<"0">>), Str(BracketKey)}

FormatPaths == UNION {[1..n -> FormatSegments] : n \in 0..MaxPathLen}

\* paths that may hold a key that reads as an index
KeyPaths ==
  UNION {[1..n -> Segments \cup {Str(<<"0">>)}] : n \in 0..MaxPathLen}

MaxRows == 2

\* a row's value and type:  "x" string   1 number   null null
\*                          1 array      "x" object
RowValues ==
  { <<Str(<<"x">>), "string">>, <<Num(1), "number">>, <<Null, "null">>,
    <<Num(1), "array">>, <<Str(<<"x">>), "object">> }

RowAlphabet ==
  { [key |-> k, value |-> vt[1], type |-> vt[2]] :
      k \in {NoKey, <<>>, KeyA, KeyB}, vt \in RowValues }

NodeRows ==
  {NoRows} \cup {Rows(r) : r \in UNION {[1..n -> RowAlphabet] : n \in 0..MaxRows}}

NoNode == [sel |-> FALSE, path |-> <<>>]
Node(path) == [sel |-> TRUE, path |-> path]

Success == "Node updated successfully!"
Failure == "Failed to update JSON at path"

----------------------------------------------------------------------------
(* The editor *)

\* one more successful save in a row, counted up to MaxSaves
Counted(n) == IF n < MaxSaves THEN n + 1 ELSE MaxSaves

\* new differs from old at a location that is neither on path nor under
\* it, and nowhere outside that location
ChangedApartFrom(old, new, path) ==
  \E at \in Paths :
    /\ ~Comparable(at, path)
    /\ ResolveIn(old, at) # ResolveIn(new, at)
    /\ \A q \in Paths :
         ~Comparable(q, at) => ResolveIn(old, q) = ResolveIn(new, q)

\* Document store: setDocument replaces the text getDocument returns
setContents(contents) ==
  /\ json' = contents
  /\ written' = <<contents>>

\* the effect leaving a buffer under edit as it is
SelectNodeKeepsText(path) ==
  /\ nodeData' = Node(path)
  /\ editValue' = IF isEditing THEN editValue ELSE getFullNodeValue(json, path)
  /\ isEditing' = FALSE
  /\ toasts' = <<>>
  /\ written' = <<>>
  /\ lastOp' = "select"
  /\ prevOp' = lastOp
  /\ saves' = 0
  /\ UNCHANGED <<json, changed, apart>>

\* useEffect on [opened, nodeData]: a node is selected with the modal open
SelectNode(path) ==
  /\ nodeData' = Node(path)
  /\ editValue' = getFullNodeValue(json, path)
  /\ isEditing' = FALSE
  /\ toasts' = <<>>
  /\ written' = <<>>
  /\ lastOp' = "select"
  /\ prevOp' = lastOp
  /\ saves' = 0
  /\ UNCHANGED <<json, changed, apart>>

\* handleEdit resolving the path again on the way into Editing
handleEditRereads ==
  /\ nodeData.sel
  /\ ~isEditing
  /\ isEditing' = TRUE
  /\ editValue' = getFullNodeValue(json, nodeData.path)
  /\ toasts' = <<>>
  /\ written' = <<>>
  /\ lastOp' = "edit"
  /\ prevOp' = lastOp
  /\ changed' = FALSE
  /\ apart' = FALSE
  /\ UNCHANGED <<json, nodeData, saves>>

handleEdit ==
  /\ nodeData.sel
  /\ ~isEditing
  /\ isEditing' = TRUE
  /\ toasts' = <<>>
  /\ written' = <<>>
  /\ lastOp' = "edit"
  /\ prevOp' = lastOp
  /\ changed' = FALSE
  /\ apart' = FALSE
  /\ UNCHANGED <<json, nodeData, editValue, saves>>

\* Textarea onChange
ChangeText(text) ==
  /\ nodeData.sel
  /\ isEditing
  /\ editValue' = text
  /\ toasts' = <<>>
  /\ written' = <<>>
  /\ lastOp' = "change"
  /\ prevOp' = lastOp
  /\ saves' = 0
  /\ UNCHANGED <<json, nodeData, isEditing, changed, apart>>

\* handleCancel without the fresh resolve: the typed text stays
handleCancelKeepsText ==
  /\ nodeData.sel
  /\ isEditing
  /\ isEditing' = FALSE
  /\ toasts' = <<>>
  /\ written' = <<>>
  /\ lastOp' = "cancel"
  /\ prevOp' = lastOp
  /\ saves' = 0
  /\ UNCHANGED <<json, nodeData, changed, apart, editValue>>

handleCancel ==
  /\ nodeData.sel
  /\ isEditing
  /\ editValue' = getFullNodeValue(json, nodeData.path)
  /\ isEditing' = FALSE
  /\ toasts' = <<>>
  /\ written' = <<>>
  /\ lastOp' = "cancel"
  /\ prevOp' = lastOp
  /\ saves' = 0
  /\ UNCHANGED <<json, nodeData, changed, apart>>

\* NewValue with the fallback storing the text as a JSON string literal
NewValueQuoted(text) ==
  LET parsed == JSONparse(text)
  IN IF parsed.ok THEN parsed.v
     ELSE IF text = Undefined THEN Undef
     ELSE Str(QuoteJSONString(text))

\* the value handleSave stores: the parsed text, or the text itself
NewValue(text) ==
  LET parsed == JSONparse(text)
  IN IF parsed.ok THEN parsed.v
     ELSE IF text = Undefined THEN Undef
     ELSE Str(text)

\* handleSave reformatting the buffer before the update is attempted
handleSaveFormatsFirst ==
  /\ nodeData.sel
  /\ isEditing
  /\ LET newValue == NewValue(editValue)
         updatedJson == updateJsonAtPath(json, nodeData.path, newValue)
     IN /\ editValue' = JSONstringify(newValue)
        /\ IF updatedJson.thrown
           THEN /\ toasts' = <<Failure>>
                /\ written' = <<>>
                /\ UNCHANGED <<json, isEditing, saves>>
           ELSE /\ Len(updatedJson.text) <= MaxDocLen
                /\ saves' = Counted(saves)
                /\ setContents(updatedJson.text)
                /\ toasts' = <<Success>>
                /\ isEditing' = FALSE
  /\ lastOp' = "save"
  /\ prevOp' = lastOp
  /\ UNCHANGED <<nodeData, changed, apart>>

\* handleSave leaving the buffer as typed after a successful update
handleSaveKeepsText ==
  /\ nodeData.sel
  /\ isEditing
  /\ LET newValue == NewValue(editValue)
         updatedJson == updateJsonAtPath(json, nodeData.path, newValue)
     IN IF updatedJson.thrown
        THEN /\ toasts' = <<Failure>>
             /\ written' = <<>>
             /\ UNCHANGED <<json, isEditing, editValue, saves>>
        ELSE /\ Len(updatedJson.text) <= MaxDocLen
             /\ saves' = Counted(saves)
             /\ setContents(updatedJson.text)
             /\ toasts' = <<Success>>
             /\ isEditing' = FALSE
             /\ UNCHANGED editValue
  /\ lastOp' = "save"
  /\ prevOp' = lastOp
  /\ UNCHANGED <<nodeData, changed, apart>>

\* handleSave showing the saved value as a JSON string of its text
handleSaveQuotesBuffer ==
  /\ nodeData.sel
  /\ isEditing
  /\ LET newValue == NewValue(editValue)
         updatedJson == updateJsonAtPath(json, nodeData.path, newValue)
     IN IF updatedJson.thrown
        THEN /\ toasts' = <<Failure>>
             /\ written' = <<>>
             /\ UNCHANGED <<json, isEditing, editValue, saves>>
        ELSE /\ Len(updatedJson.text) <= MaxDocLen
             /\ saves' = Counted(saves)
             /\ setContents(updatedJson.text)
             /\ editValue' = IF newValue.t = "undef" THEN Undefined
                             ELSE QuoteJSONString(JSONstringify(newValue))
             /\ toasts' = <<Success>>
             /\ isEditing' = FALSE
  /\ lastOp' = "save"
  /\ prevOp' = lastOp
  /\ UNCHANGED <<nodeData, changed, apart>>

handleSave ==
  /\ nodeData.sel
  /\ isEditing
  /\ LET newValue == NewValue(editValue)
         updatedJson == updateJsonAtPath(json, nodeData.path, newValue)
     IN IF updatedJson.thrown
        THEN /\ toasts' = <<Failure>>
             /\ written' = <<>>
             /\ UNCHANGED <<json, isEditing, editValue, saves>>
        ELSE /\ Len(updatedJson.text) <= MaxDocLen
             /\ saves' = Counted(saves)
             /\ setContents(updatedJson.text)
             /\ editValue' = JSONstringify(newValue)
             /\ toasts' = <<Success>>
             /\ isEditing' = FALSE
  /\ lastOp' = "save"
  /\ prevOp' = lastOp
  /\ UNCHANGED <<nodeData, changed, apart>>

\* another writer of the store replaces the document
ExternalChange(text) ==
  /\ text # json
  /\ json' = text
  /\ toasts' = <<>>
  /\ written' = <<>>
  /\ lastOp' = "external"
  /\ prevOp' = lastOp
  /\ changed' = isEditing
  /\ apart' = (/\ isEditing
             /\ changed => apart
             /\ ChangedApartFrom(json, text, nodeData.path))
  /\ saves' = 0
  /\ UNCHANGED <<nodeData, isEditing, editValue>>

ResolverOff ==
  /\ rD = <<>> /\ rP = <<>> /\ rV = Null
  /\ rSet = Failed /\ rGet = <<>> /\ rGet2 = <<>> /\ rPc = "off"

FormatOff == fP = <<>> /\ fQ = <<>> /\ fOut = <<>> /\ fPc = "off"

PreviewOff == pRows = NoRows /\ pOut = <<>> /\ pPc = "off"

EditorOff ==
  /\ json = <<>> /\ nodeData = NoNode /\ isEditing = FALSE
  /\ editValue = <<>> /\ toasts = <<>> /\ written = <<>>
  /\ lastOp = "off" /\ changed = FALSE
  /\ prevOp = "off" /\ apart = FALSE /\ saves = 0

Init ==
  /\ json \in StoreTexts
  /\ nodeData = NoNode
  /\ isEditing = FALSE
  /\ editValue = <<>>
  /\ toasts = <<>>
  /\ written = <<>>
  /\ lastOp = "init"
  /\ changed = FALSE
  /\ prevOp = "init"
  /\ apart = FALSE
  /\ saves = 0
  /\ ResolverOff
  /\ FormatOff
  /\ PreviewOff

harnessVars == <<resolverVars, formatVars, previewVars>>

Select ==
  (\E path \in NodePaths : SelectNode(path)) /\ UNCHANGED harnessVars
Edit == handleEdit /\ UNCHANGED harnessVars
Change == (\E text \in TypedTexts : ChangeText(text)) /\ UNCHANGED harnessVars
Cancel == handleCancel /\ UNCHANGED harnessVars
Save == handleSave /\ UNCHANGED harnessVars
External ==
  (\E text \in StoreTexts : ExternalChange(text)) /\ UNCHANGED harnessVars

Next == Select \/ Edit \/ Change \/ Cancel \/ Save \/ External

Spec == Init /\ [][Next]_vars

\* the editor as the only writer of the store
NextSolo == Select \/ Edit \/ Change \/ Cancel \/ Save

SpecSolo == Init /\ [][NextSolo]_vars

----------------------------------------------------------------------------
(* The resolver on its own: resolve, setAt and their compositions *)

Resolve ==
  /\ rPc = "start"
  /\ rGet' = getFullNodeValue(rD, rP)
  /\ rPc' = "resolved"
  /\ UNCHANGED <<rD, rP, rV, rSet, rGet2, editorVars, formatVars, previewVars>>

SetAt ==
  /\ rPc = "resolved"
  /\ rSet' = updateJsonAtPath(rD, rP, rV)
  /\ rPc' = "set"
  /\ UNCHANGED <<rD, rP, rV, rGet, rGet2, editorVars, formatVars, previewVars>>

\* setAt(D, P, resolve(D, P)): the value written is the one resolve showed
WriteBack ==
  /\ rPc = "resolved"
  /\ rV' = NewValue(rGet)
  /\ rSet' = updateJsonAtPath(rD, rP, NewValue(rGet))
  /\ rPc' = "wroteback"
  /\ UNCHANGED <<rD, rP, rGet, rGet2, editorVars, formatVars, previewVars>>

\* resolve(setAt(D, P, V), P)
ReadBack ==
  /\ rPc = "set"
  /\ ~rSet.thrown
  /\ rGet2' = getFullNodeValue(rSet.text, rP)
  /\ rPc' = "readback"
  /\ UNCHANGED <<rD, rP, rV, rSet, rGet, editorVars, formatVars, previewVars>>

InitResolver ==
  /\ rD \in DocumentTexts \cup {BrokenText}
  /\ rP \in Paths
  /\ rV \in NewValues
  /\ rSet = Failed /\ rGet = <<>> /\ rGet2 = <<>> /\ rPc = "start"
  /\ EditorOff
  /\ FormatOff
  /\ PreviewOff

NextResolver == Resolve \/ SetAt \/ WriteBack \/ ReadBack

SpecResolver == InitResolver /\ [][NextResolver]_vars

----------------------------------------------------------------------------
(* The formatter on its own, on two paths *)

Format ==
  /\ fPc = "start"
  /\ fOut' = <<jsonPathToString(fP), jsonPathToString(fQ)>>
  /\ fPc' = "done"
  /\ UNCHANGED <<fP, fQ, editorVars, resolverVars, previewVars>>

InitFormat ==
  /\ fP \in FormatPaths
  /\ fQ \in FormatPaths
  /\ fOut = <<>> /\ fPc = "start"
  /\ EditorOff
  /\ ResolverOff
  /\ PreviewOff

NextFormat == Format

SpecFormat == InitFormat /\ [][NextFormat]_vars

----------------------------------------------------------------------------
(* The display preview on its own *)

Normalize ==
  /\ pPc = "start"
  /\ pOut' = normalizeNodeData(pRows)
  /\ pPc' = "done"
  /\ UNCHANGED <<pRows, editorVars, resolverVars, formatVars>>

InitPreview ==
  /\ pRows \in NodeRows
  /\ pOut = <<>> /\ pPc = "start"
  /\ EditorOff
  /\ ResolverOff
  /\ FormatOff

NextPreview == Normalize

SpecPreview == InitPreview /\ [][NextPreview]_vars

\* getFullNodeValue reaches the end of its loop with a value in hand
Resolves(text, path) ==
  LET parsed == JSONparse(text)
      r == Navigate(parsed.v, path, Len(path))
  IN parsed.ok /\ ~r.thrown /\ r.v.t # "undef"

----------------------------------------------------------------------------
(* Claims on the resolver, under SpecResolver *)

\* C1: for every document, every non-empty path whose segments before the
\* last resolve to containers, and every JSON value V, setAt succeeds and
\* resolving the path in the document it returns yields exactly V.
C1_WriteThenRead ==
  /\ (rPc = "set" /\ ParentIsContainer(rD, rP)) => ~rSet.thrown
  /\ (rPc = "readback" /\ ParentIsContainer(rD, rP))
       => JSONparse(rGet2) = [ok |-> TRUE, v |-> rV]

\* C2: for every document and every path that resolves in it, writing back
\* the resolved value succeeds and yields a structurally equal document.
C2_RoundTrip ==
  (rPc = "wroteback" /\ Resolves(rD, rP))
    => /\ ~rSet.thrown
       /\ JSONparse(rSet.text) = JSONparse(rD)

C4_ResolveOnlyThroughContainers ==
  (rPc = "resolved" /\ JSONparse(rD).ok /\ ~ResolveIn(rD, rP).found)
    => rGet \in {EmptyObjectText, Undefined}

\* C12: setAt with the empty path returns the new value as the whole
\* document, for every document and every value; nothing of the previous
\* document is in the result.
C12_RootReplaced ==
  (rPc = "set" /\ rP = <<>> /\ JSONparse(rD).ok)
    => /\ ~rSet.thrown
       /\ JSONparse(rSet.text) = [ok |-> TRUE, v |-> rV]

C12_Witness ==
  /\ rPc = "set"
  /\ rP = <<>>
  /\ JSONparse(rD) = [ok |-> TRUE, v |-> Arr(<< Obj(<< <<KeyA, Num(1)>> >>) >>)]
  /\ rV = Num(7)
  /\ rSet = Text(<<"7">>)

\* C17: where setAt succeeds, every path that resolves in the document and
\* is neither a prefix nor an extension of the target resolves in the
\* result to the value it had.
C17_SetAtFrame ==
  (rPc = "set" /\ ~rSet.thrown)
    => \A q \in KeyPaths :
         (/\ ~Comparable(q, rP)
          /\ ResolveIn(rD, q).found
          /\ WellTyped(JSONparse(rD).v, q))
           => ResolveIn(rSet.text, q) = ResolveIn(rD, q)

----------------------------------------------------------------------------
(* Claims on the formatter, under SpecFormat *)

\* the bracket group the canonical path string has for one segment
BracketGroup(seg) ==
  IF seg.t = "num" THEN <<"[">> \o NumberToString(seg.n) \o <<"]">>
  ELSE <<"[", "\"">> \o seg.s \o <<"\"", "]">>

RECURSIVE BracketGroups(_)
BracketGroups(path) ==
  IF path = <<>> THEN <<>>
  ELSE BracketGroup(Head(path)) \o BracketGroups(Tail(path))

\* C11: format gives $ for the empty path and otherwise $ followed, in
\* path order and with nothing between them, by ["key"] for each string
\* segment and [N] for each integer segment.
C11_CanonicalPathString ==
  (fPc = "done")
    => /\ fOut[1] = <<"$">> \o BracketGroups(fP)
       /\ fP = <<>> => fOut[1] = <<"$">>

C11_Witness ==
  /\ fPc = "done"
  /\ fP = <<Str(KeyA), Num(1)>>
  /\ fOut[1] = <<"$", "[", "\"", "a", "\"", "]", "[", "1", "]">>

HasQuote(path) ==
  \E i \in 1..Len(path) :
    path[i].t = "str" /\ \E j \in 1..Len(path[i].s) : path[i].s[j] = "\""

\* C10 as claimed: any two different paths format to different strings.
C10_Injective ==
  (fPc = "done" /\ fP # fQ) => fOut[1] # fOut[2]

\* C10 as amended: two different paths whose string segments hold no
\* double quote format to different strings.
C10_InjectiveWithoutQuotes ==
  (fPc = "done" /\ fP # fQ /\ ~HasQuote(fP) /\ ~HasQuote(fQ))
    => fOut[1] # fOut[2]

C10_Witness ==
  /\ fPc = "done"
  /\ fP = <<Str(KeyA), Str(<<"0">>)>>
  /\ fQ = <<Str(KeyA), Num(0)>>
  /\ fOut[1] # fOut[2]

----------------------------------------------------------------------------
(* Claims on the editor, under Spec *)

Viewing == nodeData.sel /\ ~isEditing
Editing == nodeData.sel /\ isEditing

\* the location setAt is specified for: the root, a key of an object
\* (present or new), or an index an array has
ValidPath(text, path) ==
  \/ /\ path = <<>>
     /\ JSONparse(text).ok
  \/ /\ ParentIsContainer(text, path)
     /\ LET parent == ResolveIn(text, SubSeq(path, 1, Len(path) - 1)).v
        IN parent.t = "arr" => ResolveIn(text, path).found

\* C5: whenever Viewing is entered through selection or cancel and the
\* selected path does not resolve in the current document, the EditBuffer
\* is the text {} ; it is always a defined text.
C5_FallbackOnEntry ==
  (lastOp \in {"select", "cancel"})
    => /\ editValue # Undefined
       /\ ~ResolveIn(json, nodeData.path).found => editValue = EmptyObjectText

SaveThrows == updateJsonAtPath(json, nodeData.path, NewValue(editValue)).thrown

\* C6: when a save fails, the editor stays in Editing, nothing is written
\* to the store, the EditBuffer keeps its text, and exactly one error and
\* no success notification is emitted.
C6_FailedSaveKeepsState ==
  [][(lastOp' = "save" /\ SaveThrows)
       => /\ isEditing'
          /\ written' = <<>>
          /\ json' = json
          /\ editValue' = editValue
          /\ nodeData' = nodeData
          /\ toasts' = <<Failure>>]_vars

C6_Witness ==
  /\ lastOp = "save"
  /\ Editing
  /\ toasts = <<Failure>>
  /\ editValue = <<"n", "o">>
  /\ written = <<>>

\* C7: saving a text that is no JSON at a valid path succeeds: one success
\* and no error notification, the editor is Viewing, and the path resolves
\* in the stored document to the string whose characters are the text.
C7_UnparsableTextSavedAsString ==
  [][(/\ lastOp' = "save"
      /\ editValue # Undefined
      /\ ~JSONparse(editValue).ok
      /\ ValidPath(json, nodeData.path))
       => /\ toasts' = <<Success>>
          /\ ~isEditing'
          /\ written' = <<json'>>
          /\ ResolveIn(json', nodeData.path) = Found(Str(editValue))]_vars

C7_Witness ==
  /\ lastOp = "save"
  /\ Viewing
  /\ toasts = <<Success>>
  /\ Len(nodeData.path) > 0
  /\ ResolveIn(json, nodeData.path) = Found(Str(BrokenText))
  /\ editValue = QuoteJSONString(BrokenText)

\* C8: cancel from Editing moves to Viewing, leaves the document and the
\* selection unchanged, and sets the EditBuffer to the pretty-printed value
\* the selected path resolves to in the document as it is at cancel time,
\* whatever the buffer held.
C8_CancelRereadsDocument ==
  [][lastOp' = "cancel"
       => /\ isEditing
          /\ ~isEditing'
          /\ json' = json
          /\ nodeData' = nodeData
          /\ written' = <<>>
          /\ ResolveIn(json, nodeData.path).found
               => editValue' = JSONstringify(ResolveIn(json, nodeData.path).v)]_vars

C8_Witness ==
  /\ lastOp = "cancel"
  /\ Viewing
  /\ changed
  /\ Len(nodeData.path) > 0
  /\ ResolveIn(json, nodeData.path).found
  /\ editValue = JSONstringify(ResolveIn(json, nodeData.path).v)

\* C9: a successful save passes setAt(current document, selected path,
\* candidate) to the store exactly once, emits exactly one success and no
\* error notification, moves to Viewing, and sets the EditBuffer to the
\* pretty-printed candidate.
C9_SuccessfulSave ==
  [][(lastOp' = "save" /\ ~SaveThrows)
       => /\ written' =
               <<updateJsonAtPath(json, nodeData.path, NewValue(editValue)).text>>
          /\ toasts' = <<Success>>
          /\ ~isEditing'
          /\ nodeData' = nodeData
          /\ editValue' = JSONstringify(NewValue(editValue))]_vars

C9_Witness ==
  /\ lastOp = "save"
  /\ Viewing
  /\ toasts = <<Success>>
  /\ written = <<json>>
  /\ Len(nodeData.path) = 2
  /\ ResolveIn(json, nodeData.path) = Found(Num(7))
  /\ editValue = <<"7">>

\* C13: whenever the selection changes, in Viewing or in Editing, the
\* editor is in Viewing afterwards, the document is as it was, and the
\* EditBuffer is the fresh resolve of the new path in the current document:
\* its pretty-printed value where the path resolves.
C13_SelectionResets ==
  [][(lastOp' = "select" /\ nodeData' # nodeData)
       => /\ ~isEditing'
          /\ json' = json
          /\ written' = <<>>
          /\ editValue' = getFullNodeValue(json, nodeData'.path)
          /\ ResolveIn(json, nodeData'.path).found
               => editValue' = JSONstringify(ResolveIn(json, nodeData'.path).v)]_vars

C13_Witness ==
  /\ lastOp = "select"
  /\ prevOp = "change"
  /\ Viewing
  /\ Len(nodeData.path) > 0
  /\ ResolveIn(json, nodeData.path).found
  /\ editValue = JSONstringify(ResolveIn(json, nodeData.path).v)
  /\ editValue \notin TypedTexts

\* C15: handleEdit moves from Viewing to Editing and leaves the EditBuffer,
\* the document and the selected path as they were.
C15_EditKeepsBuffer ==
  [][lastOp' = "edit"
       => /\ ~isEditing
          /\ isEditing'
          /\ editValue' = editValue
          /\ json' = json
          /\ nodeData' = nodeData
          /\ written' = <<>>]_vars

C15_Witness ==
  /\ lastOp = "edit"
  /\ prevOp = "external"
  /\ Editing
  /\ editValue # getFullNodeValue(json, nodeData.path)

\* C16: when another writer changed the document during Editing at a
\* location apart from the selected path, a successful save writes a
\* document that holds both that change (everything off the selected path
\* is as in the current document) and the candidate at the selected path.
C16_SaveOnCurrentDocument ==
  [][(lastOp' = "save" /\ ~SaveThrows /\ changed /\ apart)
       => /\ written' = <<json'>>
          /\ \A q \in Paths :
               ~Comparable(q, nodeData.path)
                 => ResolveIn(json', q) = ResolveIn(json, q)
          /\ ResolveIn(json', nodeData.path) = Found(NewValue(editValue))]_vars

----------------------------------------------------------------------------
(* Claims on the editor as the only writer, under SpecSolo *)

\* C18: with no other writer of the document, whenever the editor is in
\* Viewing and the selected path resolves, the EditBuffer is the
\* pretty-printed value the path resolves to in the current document.
C18_BufferAgreesInViewing ==
  (Viewing /\ ResolveIn(json, nodeData.path).found)
    => editValue = JSONstringify(ResolveIn(json, nodeData.path).v)

----------------------------------------------------------------------------
(* Claims on saving again, under Spec *)

\* C19: after a successful save, entering Editing and saving again with
\* the EditBuffer as the save left it succeeds and leaves the document and
\* the EditBuffer as they were after the first save.
C19_ResaveIdempotent ==
  [][(lastOp' = "save" /\ lastOp = "edit" /\ saves > 0)
       => /\ toasts' = <<Success>>
          /\ ~isEditing'
          /\ json' = json
          /\ editValue' = editValue]_vars

C19_Witness ==
  /\ lastOp = "save"
  /\ prevOp = "edit"
  /\ saves = 2
  /\ Viewing
  /\ toasts = <<Success>>
  /\ ResolveIn(json, nodeData.path) = Found(Str(BrokenText))
  /\ editValue = QuoteJSONString(BrokenText)

----------------------------------------------------------------------------
(* Claims on the display preview, under SpecPreview *)

\* the text of a scalar as it stands, a string without quotes
RawText(v) == IF v.t = "str" THEN v.s ELSE JSONstringify(v)

\* the rows the preview object holds: keyed and not container-typed
Previewed(rows) ==
  {i \in 1..Len(rows) :
     ~KeyIsFalsy(rows[i]) /\ rows[i].type \notin {"array", "object"}}

\* C14: the preview is {} for an empty or absent row list, the raw value
\* text of the row when there is exactly one row and it has no key, and
\* otherwise the pretty-printed object that holds exactly the keyed rows
\* whose type is neither array nor object, each with its value.
C14_Preview ==
  (pPc = "done")
    => LET rows == pRows.rows
           parsed == JSONparse(pOut)
       IN IF ~pRows.given \/ rows = <<>> THEN pOut = EmptyObjectText
          ELSE IF Len(rows) = 1 /\ KeyIsFalsy(rows[1])
            THEN pOut = RawText(rows[1].value)
          ELSE /\ parsed.ok /\ parsed.v.t = "obj"
               /\ pOut = JSONstringify(parsed.v)
               /\ \A i \in Previewed(rows) : HasKey(parsed.v.o, rows[i].key)
               /\ \A j \in 1..Len(parsed.v.o) :
                    \E i \in Previewed(rows) :
                      /\ rows[i].key = parsed.v.o[j][1]
                      /\ rows[i].value = parsed.v.o[j][2]

C14_Witness ==
  /\ pPc = "done"
  /\ pRows = Rows(<< [key |-> KeyA, value |-> Str(<<"x">>), type |-> "string"],
                     [key |-> KeyB, value |-> Num(1), type |-> "array"] >>)
  /\ pOut = JSONstringify(Obj(<< <<KeyA, Str(<<"x">>)>> >>))

====
